---------------------------- MODULE Spec2Model ----------------------------
(***************************************************************************)
(* A model of the HTTP server of http-server-rust: the connection handler  *)
(* (client_handler.rs), the request parser (http_request.rs), the response *)
(* builder and serializer (http_response.rs) and the gzip codec (gzip.rs). *)
(*                                                                         *)
(* Text and bytes are sequences of atoms.  An atom is a fixed run of bytes *)
(* written as a string ("GET", " ", "\r\n", "Host: ", ...); AtomLen gives  *)
(* its length in bytes.  Every byte string of the model has exactly one    *)
(* spelling in atoms, so the prefix tests, splits and slices of the code   *)
(* are the same tests on the atoms.                                        *)
(***************************************************************************)
EXTENDS Naturals, Sequences, FiniteSets, TLC

--------------------------------------------------------------------------
(* Atoms and their byte lengths *)

CRLF == "\r\n"
SP == " "
SLASH == "/"
BAD_BYTE == "<0x80>"

AtomLen(a) ==
    CASE a \in {"0", "1", "2", "3", "4", "5", "6", "7", "8", "9"} -> 1
      [] a \in {SP, SLASH, "x", BAD_BYTE, "<deflate>", "<eob>"} -> 1
      [] a \in {CRLF, "..", "hi", ", "} -> 2
      [] a \in {"GET", "get", "Get", "PUT", "abc", "1.1", "FOO", "srv",
                "old"} -> 3
      [] a \in {"POST", "post", "echo", "curl", "gzip", "data", "<crc32>",
                "<isize>"} -> 4
      [] a \in {"files", "HTTP/", "hello", "nodir"} -> 5
      [] a \in {"Host: ", "secret", "-extra"} -> 6
      [] a \in {"unknown", "deflate"} -> 7
      [] a \in {"X-Other: ", "localhost", "topsecret"} -> 9
      [] a \in {"user-agent", "text/plain", "<gzip-header>"} -> 10
      [] a = "User-Agent: " -> 12
      [] a = "Location: " -> 10
      [] a = "Content-Type: " -> 14
      [] a = "HTTP/1.1 200 OK" -> 15
      [] a = "Content-Length: " -> 16
      [] a \in {"Accept-Encoding: ", "A*17"} -> 17
      [] a = "Content-Encoding: " -> 18
      [] a = "Failed to write file" -> 20
      [] a = "HTTP/1.1 201 Created" -> 20
      [] a = "No filepath specified" -> 21
      [] a = "HTTP/1.1 404 Not Found" -> 22
      [] a = "application/octet-stream" -> 24
      [] a = "HTTP/1.1 400 Bad Request" -> 24
      [] a = "Missing User-Agent header" -> 25
      [] a = "Resource created successfully" -> 29
      [] a = "HTTP/1.1 500 Internal Server Error" -> 34
      [] a = "File asked but no filename provided" -> 35
      [] a = "A*4050" -> 4050
      [] a = "A*4095" -> 4095

RECURSIVE ByteLen(_)
ByteLen(s) == IF s = <<>> THEN 0 ELSE AtomLen(Head(s)) + ByteLen(Tail(s))

--------------------------------------------------------------------------
(* Option values: None, or Some(x) *)

None == <<>>
Some(x) == <<x>>
IsSome(o) == o # <<>>
Unwrap(o) == o[1]

Ok(v) == [ok |-> TRUE, val |-> v, err |-> "none"]
Err(e) == [ok |-> FALSE, val |-> <<>>, err |-> e]

--------------------------------------------------------------------------
(* str helpers of the standard library, on atoms *)

StartsWith(s, p) == Len(s) >= Len(p) /\ SubSeq(s, 1, Len(p)) = p
Drop(s, k) == SubSeq(s, k + 1, Len(s))
Concat(a, b) == a \o b

\* str::split: the pieces between separators, empty pieces kept
RECURSIVE SplitFrom(_, _, _, _)
SplitFrom(s, seps, start, i) ==
    IF i > Len(s) THEN <<SubSeq(s, start, Len(s))>>
    ELSE IF s[i] \in seps
    THEN <<SubSeq(s, start, i - 1)>> \o SplitFrom(s, seps, i + 1, i + 1)
    ELSE SplitFrom(s, seps, start, i + 1)
Split(s, seps) == SplitFrom(s, seps, 1, 1)

NonEmpty(piece) == piece # <<>>

\* str::lines: split at line breaks, a final empty piece is not a line
Lines(s) ==
    LET pieces == Split(s, {CRLF})
    IN  IF pieces[Len(pieces)] = <<>>
        THEN SubSeq(pieces, 1, Len(pieces) - 1)
        ELSE pieces

\* str::split_whitespace: the non-empty runs between whitespace
SplitWhitespace(s) == SelectSeq(Split(s, {SP, CRLF}), NonEmpty)

\* str::trim
RECURSIVE TrimStart(_)
TrimStart(s) ==
    IF s # <<>> /\ Head(s) \in {SP, CRLF} THEN TrimStart(Tail(s)) ELSE s
RECURSIVE TrimEnd(_)
TrimEnd(s) ==
    IF s # <<>> /\ s[Len(s)] \in {SP, CRLF}
    THEN TrimEnd(SubSeq(s, 1, Len(s) - 1))
    ELSE s
Trim(s) == TrimEnd(TrimStart(s))

\* str::to_lowercase on a token
ToLowercase(a) ==
    CASE a \in {"GET", "get", "Get"} -> "get"
      [] a \in {"POST", "post"} -> "post"
      [] a = "PUT" -> "put"
      [] OTHER -> a

\* the first line with the given prefix, if any (Iterator::find)
FindLine(lines, prefix) ==
    LET hits == SelectSeq(lines, LAMBDA l : StartsWith(l, prefix))
    IN  IF hits = <<>> THEN None ELSE Some(hits[1])

\* usize formatted with {}: its decimal digits
Digit(d) ==
    CASE d = 0 -> "0" [] d = 1 -> "1" [] d = 2 -> "2" [] d = 3 -> "3"
      [] d = 4 -> "4" [] d = 5 -> "5" [] d = 6 -> "6" [] d = 7 -> "7"
      [] d = 8 -> "8" [] d = 9 -> "9"
RECURSIVE ToDecimal(_)
ToDecimal(n) ==
    IF n < 10 THEN <<Digit(n)>> ELSE ToDecimal(n \div 10) \o <<Digit(n % 10)>>

--------------------------------------------------------------------------
(* http_request.rs: the request line *)

\* The POST arm of the method match.  client_handler.rs dispatches on
\* RequestMethod::Post, but the copy of http_request.rs at hand has only the
\* GET arm; this arm follows the specification ("enumerated {GET, POST}",
\* "case-insensitive match against get/post").
IsPostToken(tok) == Len(tok) = 1 /\ ToLowercase(tok[1]) = "post"

\* a method match that compares the token as it is, in upper case only
RequestMethodFromStrExact(tok) ==
    IF tok = <<"GET">> THEN Ok("Get")
    ELSE IF tok = <<"POST">> THEN Ok("Post")
    ELSE Err("InvalidHTTPMethod")

RequestMethodFromStr(tok) ==
    IF Len(tok) = 1 /\ ToLowercase(tok[1]) = "get" THEN Ok("Get")
    ELSE IF IsPostToken(tok) THEN Ok("Post")
    ELSE Err("InvalidHTTPMethod")

RequestPathFromStr(tok) ==
    IF ~StartsWith(tok, <<SLASH>>) THEN Err("InvalidHTTPPath") ELSE Ok(tok)

RequestVersionFromStr(tok) ==
    IF ~StartsWith(tok, <<"HTTP/">>) THEN Err("InvalidHTTPVersionFormat")
    ELSE LET version == Drop(Trim(tok), 1)
         IN  IF version = <<>> THEN Err("MissingVersionNumber")
             ELSE Ok(version)

\* a request line parser that validates the method token as soon as it has
\* it, before it looks for the path and the version
RequestLineFromStrMethodFirst(s) ==
    LET request_line == SplitWhitespace(s)
    IN  IF Len(request_line) < 1 THEN Err("MissingMethod")
        ELSE IF ~RequestMethodFromStr(request_line[1]).ok
        THEN Err("InvalidHTTPMethod")
        ELSE IF Len(request_line) < 2 THEN Err("MissingPath")
        ELSE IF ~StartsWith(request_line[2], <<SLASH>>) THEN Err("MissingPath")
        ELSE IF Len(request_line) < 3 THEN Err("MissingVersion")
        ELSE LET method == RequestMethodFromStr(request_line[1])
                 path == RequestPathFromStr(request_line[2])
                 version == RequestVersionFromStr(request_line[3])
             IN  IF ~path.ok THEN Err(path.err)
                 ELSE IF ~version.ok THEN Err(version.err)
                 ELSE Ok([method |-> method.val, path |-> path.val,
                          version |-> version.val])

RequestLineFromStr(s) ==
    LET request_line == SplitWhitespace(s)
    IN  IF Len(request_line) < 1 THEN Err("MissingMethod")
        ELSE IF Len(request_line) < 2 THEN Err("MissingPath")
        ELSE IF ~StartsWith(request_line[2], <<SLASH>>) THEN Err("MissingPath")
        ELSE IF Len(request_line) < 3 THEN Err("MissingVersion")
        ELSE LET method == RequestMethodFromStr(request_line[1])
                 path == RequestPathFromStr(request_line[2])
                 version == RequestVersionFromStr(request_line[3])
             IN  IF ~method.ok THEN Err(method.err)
                 ELSE IF ~path.ok THEN Err(path.err)
                 ELSE IF ~version.ok THEN Err(version.err)
                 ELSE Ok([method |-> method.val, path |-> path.val,
                          version |-> version.val])

--------------------------------------------------------------------------
(* http_request.rs: the headers and the body *)

\* The encodings the server supports (the Encoding enum; its declaration is
\* not in the copy of http_request.rs at hand).  From the specification:
\* "only the literal token gzip is supported".
Encoding == {"gzip"}
IsEncoding(tok) == tok \in Encoding

\* The Accept-Encoding header as the list RequestHeader::accept_encoding
\* returns.  Not in the copy of http_request.rs at hand; from the
\* specification: a recognized header with an empty value is an error, the
\* value is an ordered list of tokens, only the first token is checked
\* against gzip, and a list whose first token is not gzip negotiates nothing.
AcceptEncodingFromStr(s) ==
    LET line == FindLine(Lines(s), <<"Accept-Encoding: ">>)
    IN  IF ~IsSome(line) THEN Ok(<<>>)
        ELSE LET value == Drop(Unwrap(line), 1)
                 tokens == SelectSeq(value, LAMBDA a : a \notin {", ", SP})
             IN  IF value = <<>> THEN Err("InvalidAcceptEncoding")
                 ELSE IF tokens # <<>> /\ IsEncoding(tokens[1])
                      THEN Ok(SelectSeq(tokens, IsEncoding))
                      ELSE Ok(<<>>)

RequestHeaderFromStr(s) ==
    LET host_line == FindLine(Lines(s), <<"Host: ">>)
        user_agent_line == FindLine(Lines(s), <<"User-Agent: ">>)
        host == IF IsSome(host_line)
                THEN Some(Drop(Unwrap(host_line), 1)) ELSE None
        user_agent == IF IsSome(user_agent_line)
                      THEN Some(Drop(Unwrap(user_agent_line), 1)) ELSE None
        accept_encoding == AcceptEncodingFromStr(s)
    IN  IF IsSome(host) /\ Unwrap(host) = <<>> THEN Err("InvalidHost")
        ELSE IF IsSome(user_agent) /\ Unwrap(user_agent) = <<>>
             THEN Err("InvalidUserAgent")
        ELSE IF ~accept_encoding.ok THEN Err(accept_encoding.err)
        ELSE Ok([host |-> host, user_agent |-> user_agent,
                 accept_encoding |-> accept_encoding.val])

\* RequestBody::from_str.  Not in the copy of http_request.rs at hand; from
\* the specification: the body is the text following the blank-line
\* separator.  A request without a separator has no body to take, which is
\* the RequestBodyError client_handler.rs propagates.
RequestBodyFromStr(s) ==
    LET seps == {i \in 1..(Len(s) - 1) : s[i] = CRLF /\ s[i + 1] = CRLF}
    IN  IF seps = {} THEN Err("RequestBodyError")
        ELSE LET i == CHOOSE j \in seps : \A k \in seps : j <= k
             IN  Ok(Drop(s, i + 1))

--------------------------------------------------------------------------
(* gzip.rs *)

\* GzEncoder at the default level on a short text without repeats: the ten
\* byte member header, one fixed-Huffman block holding the text as literals
\* (one byte each, after a one byte block header), the end-of-block code,
\* the CRC-32 and the length.
GzipParse(s) ==
    <<"<gzip-header>", "<deflate>">> \o s \o <<"<eob>", "<crc32>", "<isize>">>

\* Whether bytes are one gzip member, and the text it holds: what a client
\* gets by decompressing.
IsGzip(b) ==
    /\ Len(b) >= 5
    /\ SubSeq(b, 1, 2) = <<"<gzip-header>", "<deflate>">>
    /\ SubSeq(b, Len(b) - 2, Len(b)) = <<"<eob>", "<crc32>", "<isize>">>
    /\ \A i \in 3..(Len(b) - 3) : b[i] \notin {"<gzip-header>", "<deflate>",
                                             "<eob>", "<crc32>", "<isize>"}
Gunzip(b) == SubSeq(b, 3, Len(b) - 3)

--------------------------------------------------------------------------
(* http_response.rs *)

ResponseStatus == {"Http200", "Http201", "Http400", "Http404", "Http500"}
ContentType == {"TextPlain", "OctetStream"}

StatusDisplay(status) ==
    CASE status = "Http200" -> <<"HTTP/1.1 200 OK", CRLF>>
      [] status = "Http201" -> <<"HTTP/1.1 201 Created", CRLF>>
      [] status = "Http400" -> <<"HTTP/1.1 400 Bad Request", CRLF>>
      [] status = "Http404" -> <<"HTTP/1.1 404 Not Found", CRLF>>
      [] status = "Http500" -> <<"HTTP/1.1 500 Internal Server Error", CRLF>>

ContentTypeDisplay(content_type) ==
    CASE content_type = "TextPlain" -> <<"text/plain">>
      [] content_type = "OctetStream" -> <<"application/octet-stream">>

\* Display for Encoding (its declaration is not in the copy of
\* http_request.rs at hand): the token itself.
EncodingDisplay(encoding) == <<encoding>>

ResponseBodyLength(body) == ByteLen(body)

ContentLengthFromBody(body) == ResponseBodyLength(body)

ResponseHeaderNew(content_type, body, encoding) ==
    [content_type |-> content_type,
     content_length |-> ContentLengthFromBody(body),
     location |-> None,
     content_encoding |-> encoding]

AddLocation(header, location) ==
    [content_type |-> header.content_type,
     content_length |-> header.content_length,
     location |-> Some(location),
     content_encoding |-> header.content_encoding]

NewBuilder(status) == [status |-> status, header |-> None, body |-> None]

\* encoding.first()
First(encoding) == IF encoding = <<>> THEN None ELSE Some(encoding[1])

\* a with_body that never compresses
WithBodyUncompressed(self, content, content_type, encoding) ==
    [status |-> self.status,
     header |-> Some(ResponseHeaderNew(content_type, content, None)),
     body |-> Some(content)]

\* a with_body that takes the length before compressing
WithBodyLengthOfContent(self, content, content_type, encoding) ==
    LET body == IF ~IsSome(First(encoding)) THEN content
                ELSE GzipParse(content)
        header == ResponseHeaderNew(content_type, content, First(encoding))
    IN  [status |-> self.status, header |-> Some(header), body |-> Some(body)]

WithBody(self, content, content_type, encoding) ==
    LET body == IF ~IsSome(First(encoding)) THEN content
                ELSE GzipParse(content)
        header == ResponseHeaderNew(content_type, body, First(encoding))
    IN  [status |-> self.status, header |-> Some(header), body |-> Some(body)]

\* self.header.clone().unwrap() panics on a builder without a header
WithLocationPanics(self) == ~IsSome(self.header)

WithLocation(self, location) ==
    [status |-> self.status,
     header |-> Some(AddLocation(Unwrap(self.header), location)),
     body |-> self.body]

Build(self) ==
    [status |-> self.status, header |-> self.header, body |-> self.body]

AsHttpBytes(self) ==
    LET status_line == StatusDisplay(self.status)
        header_lines ==
            IF IsSome(self.header)
            THEN LET header == Unwrap(self.header)
                 IN  (IF IsSome(header.content_encoding)
                      THEN <<"Content-Encoding: ">>
                           \o EncodingDisplay(Unwrap(header.content_encoding))
                           \o <<CRLF>>
                      ELSE <<>>)
                     \o <<"Content-Type: ">>
                     \o ContentTypeDisplay(header.content_type) \o <<CRLF>>
                     \o <<"Content-Length: ">>
                     \o ToDecimal(header.content_length) \o <<CRLF>>
                     \o (IF IsSome(header.location)
                         THEN <<"Location: ">> \o Unwrap(header.location)
                              \o <<CRLF>>
                         ELSE <<>>)
            ELSE <<CRLF>>
        body == IF IsSome(self.body) THEN Unwrap(self.body) ELSE <<>>
    IN  status_line \o header_lines \o <<CRLF>> \o body

--------------------------------------------------------------------------
(* The file system under std::fs::read_to_string and std::fs::write *)

\* A file or directory is named by the sequence of its path components; the
\* directories are those that exist when the server starts (the server
\* creates none).
Dirs == {<<>>, <<<<"srv">>>>, <<<<"srv">>, <<"data">>>>}

Parent(dir) == IF dir = <<>> THEN <<>> ELSE SubSeq(dir, 1, Len(dir) - 1)

\* Path resolution by the operating system: empty and "." components are
\* skipped, ".." steps to the parent, every component before the last must be
\* an existing directory, and the last must not be a directory.
RECURSIVE Walk(_, _)
Walk(dir, components) ==
    IF components = <<>> THEN Err("IsADirectory")
    ELSE LET name == Head(components)
             rest == Tail(components)
             next == IF name \in {<<>>, <<".">>} THEN dir
                     ELSE IF name = <<"..">> THEN Parent(dir)
                     ELSE dir \o <<name>>
         IN  IF rest = <<>>
             THEN IF next \in Dirs THEN Err("IsADirectory") ELSE Ok(next)
             ELSE IF next \in Dirs THEN Walk(next, rest)
                  ELSE Err("NotFound")

Resolve(path) == Walk(<<>>, Split(path, {SLASH}))

ReadToString(files, path) ==
    LET target == Resolve(path)
    IN  IF ~target.ok THEN Err(target.err)
        ELSE IF target.val \notin DOMAIN files THEN Err("NotFound")
        ELSE IF \E i \in 1..Len(files[target.val]) :
                    files[target.val][i] = BAD_BYTE
             THEN Err("InvalidData")
        ELSE Ok(files[target.val])

\* The file system after fs::write(path, content) succeeded
Written(files, target, content) ==
    [p \in DOMAIN files \cup {target} |->
        IF p = target THEN content ELSE files[p]]

--------------------------------------------------------------------------
(* client_handler.rs: routing.  A route is what the handler does next: send *)
(* a response, read a file, write a file, or give up with an error.         *)

RespondWith(response) ==
    [kind |-> "respond", response |-> response, file |-> <<>>,
     content |-> <<>>, err |-> "none"]
ReadFile(file) ==
    [kind |-> "read", response |-> NewBuilder("Http404"), file |-> file,
     content |-> <<>>, err |-> "none"]
WriteFile(file, content) ==
    [kind |-> "write", response |-> NewBuilder("Http404"), file |-> file,
     content |-> content, err |-> "none"]
Abort(err) ==
    [kind |-> "abort", response |-> NewBuilder("Http404"), file |-> <<>>,
     content |-> <<>>, err |-> err]

\* format!("{directory}/{filepath}")
FilePath(directory, filepath) == directory \o <<SLASH>> \o filepath

\* an echo of everything that follows /echo/
EchoContentRest(path) == Drop(path, 3)

\* path.split('/').nth(2).unwrap_or_default()
EchoContent(path) ==
    LET pieces == Split(path, {SLASH})
    IN  IF Len(pieces) >= 3 THEN pieces[3] ELSE <<>>

\* a get that answers a missing User-Agent with a bare 404
GetUserAgentMissing404(request, request_line, request_header, directory) ==
    LET path == request_line.path
        accept_encoding == request_header.accept_encoding
    IN  IF path = <<SLASH>>
        THEN RespondWith(Build(NewBuilder("Http200")))
        ELSE IF StartsWith(path, <<SLASH, "echo", SLASH>>)
        THEN RespondWith(Build(WithBody(NewBuilder("Http200"),
                 EchoContent(path), "TextPlain", accept_encoding)))
        ELSE IF StartsWith(path, <<SLASH, "user-agent">>)
        THEN IF ~IsSome(request_header.user_agent)
             THEN RespondWith(Build(NewBuilder("Http404")))
             ELSE RespondWith(Build(WithBody(NewBuilder("Http200"),
                      Unwrap(request_header.user_agent), "TextPlain",
                      accept_encoding)))
        ELSE IF StartsWith(path, <<SLASH, "files", SLASH>>)
        THEN LET filepath == Drop(path, 3)
             IN  IF filepath # <<>>
                 THEN IF ~IsSome(directory)
                      THEN RespondWith(Build(NewBuilder("Http404")))
                      ELSE ReadFile(FilePath(Unwrap(directory), filepath))
                 ELSE RespondWith(Build(WithBody(NewBuilder("Http400"),
                          <<"File asked but no filename provided">>,
                          "TextPlain", accept_encoding)))
        ELSE RespondWith(Build(NewBuilder("Http404")))

\* a get whose root route answers with an empty text body
GetRootWithEmptyBody(request, request_line, request_header, directory) ==
    LET path == request_line.path
        accept_encoding == request_header.accept_encoding
    IN  IF path = <<SLASH>>
        THEN RespondWith(Build(WithBody(NewBuilder("Http200"), <<>>,
                 "TextPlain", accept_encoding)))
        ELSE IF StartsWith(path, <<SLASH, "echo", SLASH>>)
        THEN RespondWith(Build(WithBody(NewBuilder("Http200"),
                 EchoContent(path), "TextPlain", accept_encoding)))
        ELSE IF StartsWith(path, <<SLASH, "user-agent">>)
        THEN IF ~IsSome(request_header.user_agent)
             THEN RespondWith(Build(WithBody(NewBuilder("Http400"),
                      <<"Missing User-Agent header">>, "TextPlain",
                      accept_encoding)))
             ELSE RespondWith(Build(WithBody(NewBuilder("Http200"),
                      Unwrap(request_header.user_agent), "TextPlain",
                      accept_encoding)))
        ELSE IF StartsWith(path, <<SLASH, "files", SLASH>>)
        THEN LET filepath == Drop(path, 3)
             IN  IF filepath # <<>>
                 THEN IF ~IsSome(directory)
                      THEN RespondWith(Build(NewBuilder("Http404")))
                      ELSE ReadFile(FilePath(Unwrap(directory), filepath))
                 ELSE RespondWith(Build(WithBody(NewBuilder("Http400"),
                          <<"File asked but no filename provided">>,
                          "TextPlain", accept_encoding)))
        ELSE RespondWith(Build(NewBuilder("Http404")))

Get(request, request_line, request_header, directory) ==
    LET path == request_line.path
        accept_encoding == request_header.accept_encoding
    IN  IF path = <<SLASH>>
        THEN RespondWith(Build(NewBuilder("Http200")))
        ELSE IF StartsWith(path, <<SLASH, "echo", SLASH>>)
        THEN RespondWith(Build(WithBody(NewBuilder("Http200"),
                 EchoContent(path), "TextPlain", accept_encoding)))
        ELSE IF StartsWith(path, <<SLASH, "user-agent">>)
        THEN IF ~IsSome(request_header.user_agent)
             THEN RespondWith(Build(WithBody(NewBuilder("Http400"),
                      <<"Missing User-Agent header">>, "TextPlain",
                      accept_encoding)))
             ELSE RespondWith(Build(WithBody(NewBuilder("Http200"),
                      Unwrap(request_header.user_agent), "TextPlain",
                      accept_encoding)))
        ELSE IF StartsWith(path, <<SLASH, "files", SLASH>>)
        THEN LET filepath == Drop(path, 3)
             IN  IF filepath # <<>>
                 THEN IF ~IsSome(directory)
                      THEN RespondWith(Build(NewBuilder("Http404")))
                      ELSE ReadFile(FilePath(Unwrap(directory), filepath))
                 ELSE RespondWith(Build(WithBody(NewBuilder("Http400"),
                          <<"File asked but no filename provided">>,
                          "TextPlain", accept_encoding)))
        ELSE RespondWith(Build(NewBuilder("Http404")))

\* a get that serves files as text
GetFileReadAsText(read, request_header) ==
    IF ~read.ok
    THEN Build(NewBuilder("Http404"))
    ELSE Build(WithBody(NewBuilder("Http200"), read.val, "TextPlain",
                        request_header.accept_encoding))

\* get, after fs::read_to_string returned
GetFileRead(read, request_header) ==
    IF ~read.ok
    THEN Build(NewBuilder("Http404"))
    ELSE Build(WithBody(NewBuilder("Http200"), read.val, "OctetStream",
                        request_header.accept_encoding))

Post(request, request_line, request_header, directory) ==
    LET path == request_line.path
        accept_encoding == request_header.accept_encoding
    IN  IF StartsWith(path, <<SLASH, "files", SLASH>>)
        THEN LET filepath == Drop(path, 3)
             IN  IF filepath # <<>>
                 THEN IF ~IsSome(directory)
                      THEN RespondWith(Build(NewBuilder("Http404")))
                      ELSE LET content == RequestBodyFromStr(request)
                           IN  IF ~content.ok THEN Abort(content.err)
                               ELSE WriteFile(
                                        FilePath(Unwrap(directory), filepath),
                                        content.val)
                 ELSE RespondWith(Build(WithBody(NewBuilder("Http400"),
                          <<"No filepath specified">>, "TextPlain",
                          accept_encoding)))
        ELSE RespondWith(Build(NewBuilder("Http404")))

\* a post that answers a failed write with a 500 that has no body
PostFileWrittenBare500(ok, file, request_header) ==
    IF ~ok
    THEN Build(NewBuilder("Http500"))
    ELSE Build(WithLocation(
                   WithBody(NewBuilder("Http201"),
                            <<"Resource created successfully">>, "TextPlain",
                            request_header.accept_encoding),
                   file))

\* post, after fs::write returned
PostFileWritten(ok, file, request_header) ==
    IF ~ok
    THEN Build(WithBody(NewBuilder("Http500"), <<"Failed to write file">>,
                        "TextPlain", request_header.accept_encoding))
    ELSE Build(WithLocation(
                   WithBody(NewBuilder("Http201"),
                            <<"Resource created successfully">>, "TextPlain",
                            request_header.accept_encoding),
                   file))

BufSize == 4096

NoRequestLine == [method |-> "none", path |-> <<>>, version |-> <<>>]
NoRequestHeader ==
    [host |-> None, user_agent |-> None, accept_encoding |-> <<>>]

\* a parse_request that answers request line and header errors with a 400
\* instead of returning them
ParseRequestAnsweringErrors(n, buf, directory) ==
    IF n = BufSize
    THEN [line |-> NoRequestLine, header |-> NoRequestHeader,
          route |-> Abort("RequestTooLarge")]
    ELSE IF \E i \in 1..Len(buf) : buf[i] = BAD_BYTE
    THEN [line |-> NoRequestLine, header |-> NoRequestHeader,
          route |-> Abort("Utf8Error")]
    ELSE IF Lines(buf) = <<>>
    THEN [line |-> NoRequestLine, header |-> NoRequestHeader,
          route |-> Abort("NoRequestLineFound")]
    ELSE LET request_line == RequestLineFromStr(Lines(buf)[1])
             request_header == RequestHeaderFromStr(buf)
         IN  IF ~request_line.ok \/ ~request_header.ok
             THEN [line |-> NoRequestLine, header |-> NoRequestHeader,
                   route |-> RespondWith(Build(NewBuilder("Http400")))]
             ELSE [line |-> request_line.val, header |-> request_header.val,
                   route |-> IF request_line.val.method = "Get"
                             THEN Get(buf, request_line.val,
                                      request_header.val, directory)
                             ELSE Post(buf, request_line.val,
                                       request_header.val, directory)]

\* a parse_request that takes a full buffer for a whole request
ParseRequestAcceptingFullBuffer(n, buf, directory) ==
    IF \E i \in 1..Len(buf) : buf[i] = BAD_BYTE
    THEN [line |-> NoRequestLine, header |-> NoRequestHeader,
          route |-> Abort("Utf8Error")]
    ELSE IF Lines(buf) = <<>>
    THEN [line |-> NoRequestLine, header |-> NoRequestHeader,
          route |-> Abort("NoRequestLineFound")]
    ELSE LET request_line == RequestLineFromStr(Lines(buf)[1])
             request_header == RequestHeaderFromStr(buf)
         IN  IF ~request_line.ok
             THEN [line |-> NoRequestLine, header |-> NoRequestHeader,
                   route |-> Abort(request_line.err)]
             ELSE IF ~request_header.ok
             THEN [line |-> request_line.val, header |-> NoRequestHeader,
                   route |-> Abort(request_header.err)]
             ELSE [line |-> request_line.val, header |-> request_header.val,
                   route |-> IF request_line.val.method = "Get"
                             THEN Get(buf, request_line.val,
                                      request_header.val, directory)
                             ELSE Post(buf, request_line.val,
                                       request_header.val, directory)]

\* parse_request from the return of stream.read to the first file
\* operation or to the response: the request line and header it parsed and
\* the route it takes
ParseRequest(n, buf, directory) ==
    IF n = BufSize
    THEN [line |-> NoRequestLine, header |-> NoRequestHeader,
          route |-> Abort("RequestTooLarge")]
    ELSE IF \E i \in 1..Len(buf) : buf[i] = BAD_BYTE
    THEN [line |-> NoRequestLine, header |-> NoRequestHeader,
          route |-> Abort("Utf8Error")]
    ELSE IF Lines(buf) = <<>>
    THEN [line |-> NoRequestLine, header |-> NoRequestHeader,
          route |-> Abort("NoRequestLineFound")]
    ELSE LET request_line == RequestLineFromStr(Lines(buf)[1])
             request_header == RequestHeaderFromStr(buf)
         IN  IF ~request_line.ok
             THEN [line |-> NoRequestLine, header |-> NoRequestHeader,
                   route |-> Abort(request_line.err)]
             ELSE IF ~request_header.ok
             THEN [line |-> request_line.val, header |-> NoRequestHeader,
                   route |-> Abort(request_header.err)]
             ELSE [line |-> request_line.val, header |-> request_header.val,
                   route |-> IF request_line.val.method = "Get"
                             THEN Get(buf, request_line.val,
                                      request_header.val, directory)
                             ELSE Post(buf, request_line.val,
                                       request_header.val, directory)]

--------------------------------------------------------------------------
(* The server: main.rs accepts connections and runs one handler task per   *)
(* connection; the handlers share the serving directory and the file       *)
(* system.                                                                 *)

VARIABLES
    directory,  \* Option<String>: the --directory argument
    fs,         \* the files: path components |-> content
    conn,       \* per connection: the handler task's state (op, target,
                \* seen and alone are history)
    writer,     \* history: the connection that last wrote each file
    acked,      \* history: files whose last write was answered 201, and
                \* the body of that POST
    bpc,        \* a response builder on its own: where it is
    builder,    \* the HTTPResponseBuilder
    built,      \* what build() returned, and its as_http_bytes()
    served      \* the number of connections accepted so far

vars == <<directory, fs, conn, writer, acked, bpc, builder, built, served>>

\* the connections the model lets the server accept in one run
MaxServed == 2

Conns == {1, 2}

Root == <<SLASH, "srv", SLASH, "data">>

Idle ==
    [pc |-> "idle", stream |-> <<>>, reads |-> 0, n |-> 0, buf |-> <<>>,
     line |-> NoRequestLine, header |-> NoRequestHeader,
     file |-> <<>>, content |-> <<>>, response |-> None, error |-> "none",
     wire |-> <<>>, op |-> "none", target |-> None, seen |-> None,
     alone |-> None]

NoBuilt == [response |-> None, bytes |-> <<>>]

\* the files when the server starts: one outside the serving directory,
\* and possibly one in it
InitialFiles ==
    {[p \in {<<<<"srv">>, <<"secret">>>>} |-> <<"topsecret">>],
     [p \in {<<<<"srv">>, <<"secret">>>>, <<<<"srv">>, <<"data">>, <<"x">>>>}
        |-> IF p = <<<<"srv">>, <<"secret">>>> THEN <<"topsecret">>
            ELSE <<"old">>]}

Init ==
    /\ directory \in {None, Some(Root)}
    /\ fs \in InitialFiles
    /\ conn = [c \in Conns |-> Idle]
    /\ writer = <<>>
    /\ acked = <<>>
    /\ bpc = "none"
    /\ builder = NewBuilder("Http200")
    /\ built = NoBuilt
    /\ served = 0

\* listener.accept(): a client connected and sent a request
Accept(c, requests) ==
    /\ conn[c].pc = "idle"
    /\ served < MaxServed
    /\ served' = served + 1
    /\ \E r \in requests :
           conn' = [conn EXCEPT ![c].pc = "accepted", ![c].stream = r]
    /\ UNCHANGED <<directory, fs, writer, acked, bpc, builder, built>>

\* What one stream.read(&mut buf) can return: an error, or the bytes of the
\* first segments of the stream (segments end at line ends), at most BufSize
\* of them.
ReadOutcomes(stream) ==
    {[ok |-> FALSE, n |-> 0, buf |-> <<>>]}
    \cup {[ok |-> TRUE, n |-> ByteLen(SubSeq(stream, 1, k)),
           buf |-> SubSeq(stream, 1, k)] :
            k \in {j \in 0..Len(stream) :
                     /\ (j = 0) => (stream = <<>>)
                     /\ (j < Len(stream)) => (j = 0 \/ stream[j] = CRLF)
                     /\ ByteLen(SubSeq(stream, 1, j)) <= BufSize}}
    \cup (IF ByteLen(stream) > BufSize
          THEN {[ok |-> TRUE, n |-> BufSize, buf |-> <<>>]}
          ELSE {})

\* The response a handler that takes the given route gives when no other
\* handler runs before it is done: its file operation then finds the files
\* as they are now.
AloneResponse(route, request_header, files) ==
    CASE route.kind = "respond" -> Some(route.response)
      [] route.kind = "read"
            -> Some(GetFileRead(ReadToString(files, route.file),
                                request_header))
      [] route.kind = "write"
            -> Some(PostFileWritten(Resolve(route.file).ok, route.file,
                                    request_header))
      [] route.kind = "abort" -> None

\* parse_request up to its first file operation or its response
Read(c) ==
    /\ conn[c].pc = "accepted"
    /\ \E o \in ReadOutcomes(conn[c].stream) :
        \E p \in {ParseRequest(o.n, o.buf, directory)} :
            conn' = [conn EXCEPT ![c] =
                IF ~o.ok
                THEN [@ EXCEPT !.pc = "failed", !.reads = @ + 1,
                               !.stream = <<>>,
                               !.error = "UnreadableStream"]
                ELSE [@ EXCEPT
                        !.pc = CASE p.route.kind = "respond" -> "respond"
                                 [] p.route.kind = "read" -> "file_read"
                                 [] p.route.kind = "write" -> "file_write"
                                 [] p.route.kind = "abort" -> "failed",
                        !.reads = @ + 1, !.stream = <<>>,
                        !.n = o.n, !.buf = o.buf,
                        !.line = p.line, !.header = p.header,
                        !.file = p.route.file, !.content = p.route.content,
                        !.response = IF p.route.kind = "respond"
                                     THEN Some(p.route.response) ELSE None,
                        !.error = p.route.err,
                        !.alone = AloneResponse(p.route, p.header, fs)]]
    /\ UNCHANGED <<directory, fs, writer, acked, bpc, builder, built, served>>

\* a read that creates the file it does not find
FileReadCreating(c) ==
    /\ conn[c].pc = "file_read"
    /\ LET read == ReadToString(fs, conn[c].file)
           target == Resolve(conn[c].file)
       IN  /\ conn' = [conn EXCEPT
                ![c].pc = "respond", ![c].op = "read",
                ![c].target = IF target.ok THEN Some(target.val) ELSE None,
                ![c].seen = IF target.ok /\ target.val \in DOMAIN acked
                            THEN Some(acked[target.val]) ELSE None,
                ![c].response = Some(GetFileRead(read, conn[c].header))]
           /\ fs' = IF target.ok /\ target.val \notin DOMAIN fs
                    THEN Written(fs, target.val, <<>>) ELSE fs
    /\ UNCHANGED <<directory, writer, acked, bpc, builder, built, served>>

\* get: fs::read_to_string and the response built from what it returned
FileRead(c) ==
    /\ conn[c].pc = "file_read"
    /\ LET read == ReadToString(fs, conn[c].file)
           target == Resolve(conn[c].file)
       IN  conn' = [conn EXCEPT
                ![c].pc = "respond", ![c].op = "read",
                ![c].target = IF target.ok THEN Some(target.val) ELSE None,
                ![c].seen = IF target.ok /\ target.val \in DOMAIN acked
                            THEN Some(acked[target.val]) ELSE None,
                ![c].response = Some(GetFileRead(read, conn[c].header))]
    /\ UNCHANGED <<directory, fs, writer, acked, bpc, builder, built, served>>

\* post: fs::write and the response built from what it returned
FileWrite(c) ==
    /\ conn[c].pc = "file_write"
    /\ LET target == Resolve(conn[c].file)
       IN  /\ fs' = IF target.ok
                    THEN Written(fs, target.val, conn[c].content) ELSE fs
           /\ writer' = IF target.ok THEN Written(writer, target.val, c)
                        ELSE writer
           /\ acked' = IF target.ok
                       THEN [p \in DOMAIN acked \ {target.val} |-> acked[p]]
                       ELSE acked
           /\ conn' = [conn EXCEPT
                ![c].pc = "respond", ![c].op = "write",
                ![c].target = IF target.ok THEN Some(target.val) ELSE None,
                ![c].response = Some(PostFileWritten(target.ok, conn[c].file,
                                                     conn[c].header))]
    /\ UNCHANGED <<directory, bpc, builder, built, served>>

\* a respond that tries the write again when it failed
RespondRetrying(c) ==
    /\ conn[c].pc = "respond"
    /\ LET response == Unwrap(conn[c].response)
           bytes == AsHttpBytes(response)
       IN  \/ conn' = [conn EXCEPT ![c].pc = "done", ![c].wire = bytes]
           \/ \E k \in {0, Len(bytes) - 1} :
                  conn' = [conn EXCEPT ![c].wire = SubSeq(bytes, 1, k)]
    /\ UNCHANGED <<directory, fs, writer, acked, bpc, builder, built, served>>

\* respond: stream.write_all(&response.as_http_bytes()); when it fails the
\* peer has received a part of the bytes at most
Respond(c) ==
    /\ conn[c].pc = "respond"
    /\ LET response == Unwrap(conn[c].response)
           bytes == AsHttpBytes(response)
           target == conn[c].target
       IN  \/ /\ conn' = [conn EXCEPT ![c].pc = "done", ![c].wire = bytes]
              /\ acked' = IF /\ response.status = "Http201"
                             /\ IsSome(target)
                             /\ writer[Unwrap(target)] = c
                          THEN Written(acked, Unwrap(target), conn[c].content)
                          ELSE acked
           \/ /\ \E k \in {0, Len(bytes) - 1} :
                    conn' = [conn EXCEPT ![c].pc = "failed",
                                         ![c].error = "ClientUnreachable",
                                         ![c].wire = SubSeq(bytes, 1, k)]
              /\ UNCHANGED acked
    /\ UNCHANGED <<directory, fs, writer, bpc, builder, built, served>>

\* a handler whose return takes every other handler down with it
CloseEveryHandler(c) ==
    /\ conn[c].pc \in {"done", "failed"}
    /\ conn' = [d \in Conns |-> Idle]
    /\ UNCHANGED <<directory, fs, writer, acked, bpc, builder, built, served>>

\* the handler task has returned, and the peer is gone
Close(c) ==
    /\ conn[c].pc \in {"done", "failed"}
    /\ conn' = [conn EXCEPT ![c] = Idle]
    /\ UNCHANGED <<directory, fs, writer, acked, bpc, builder, built, served>>

--------------------------------------------------------------------------
(* A response builder on its own: any sequence of builder operations *)

BuilderContents == {<<>>, <<"hello">>, <<"abc", "x">>}
BuilderEncodings == {<<>>, <<"gzip">>, <<"gzip", "gzip">>}
BuilderLocations == {<<SLASH, "x">>, Root \o <<SLASH, "x">>}

BNew ==
    /\ bpc \in {"none", "built", "panicked"}
    /\ \E status \in ResponseStatus : builder' = NewBuilder(status)
    /\ bpc' = "building"
    /\ built' = NoBuilt
    /\ UNCHANGED <<directory, fs, conn, writer, acked, served>>

BWithBody ==
    /\ bpc = "building"
    /\ \E content \in BuilderContents, content_type \in ContentType,
          encoding \in BuilderEncodings :
           builder' = WithBody(builder, content, content_type, encoding)
    /\ UNCHANGED <<directory, fs, conn, writer, acked, bpc, built, served>>

BWithLocation ==
    /\ bpc = "building"
    /\ \E location \in BuilderLocations :
           IF WithLocationPanics(builder)
           THEN bpc' = "panicked" /\ UNCHANGED builder
           ELSE bpc' = bpc /\ builder' = WithLocation(builder, location)
    /\ UNCHANGED <<directory, fs, conn, writer, acked, built, served>>

BBuild ==
    /\ bpc = "building"
    /\ bpc' = "built"
    /\ built' = [response |-> Some(Build(builder)),
                 bytes |-> AsHttpBytes(Build(builder))]
    /\ UNCHANGED <<directory, fs, conn, writer, acked, builder, served>>

--------------------------------------------------------------------------
(* The requests clients send *)

RequestLineText(method, path, version) ==
    <<method, SP>> \o path \o <<SP>> \o version

RECURSIVE HeaderBlock(_)
HeaderBlock(lines) ==
    IF lines = <<>> THEN <<>>
    ELSE Head(lines) \o <<CRLF>> \o HeaderBlock(Tail(lines))

RequestText(line, headers, body) ==
    line \o <<CRLF>> \o HeaderBlock(headers) \o <<CRLF>> \o body

Http11 == <<"HTTP/", "1.1">>

Paths ==
    {<<SLASH>>,
     <<SLASH, "echo", SLASH, "abc">>, <<SLASH, "echo", SLASH>>,
     <<SLASH, "echo">>, <<SLASH, "echo", SLASH, "abc", SLASH, "x">>,
     <<SLASH, "user-agent">>, <<SLASH, "user-agent", "-extra">>,
     <<SLASH, "files", SLASH, "x">>, <<SLASH, "files", SLASH>>,
     <<SLASH, "files">>,
     <<SLASH, "files", SLASH, "..", SLASH, "secret">>,
     <<SLASH, "files", SLASH, "nodir", SLASH, "x">>,
     <<SLASH, "unknown">>}

GoodLines ==
    {RequestLineText(m, p, Http11) : m \in {"GET", "get", "POST"}, p \in Paths}

BadLines ==
    {<<>>, <<"GET">>, <<"PUT">>, <<"GET", SP, SLASH>>, <<"PUT", SP, SLASH>>,
     <<"GET", SP, "abc", SP>> \o Http11,
     <<"PUT", SP, SLASH, SP>> \o Http11,
     <<"PUT", SP, "abc", SP>> \o Http11,
     <<"GET", SP, SLASH, SP, "FOO">>,
     <<"GET", SP, SLASH, SP, "HTTP/">>}

HeaderLines ==
    {<<"Host: ", "localhost">>, <<"Host: ">>,
     <<"User-Agent: ", "curl">>, <<"User-Agent: ">>,
     <<"Accept-Encoding: ", "gzip">>, <<"Accept-Encoding: ">>,
     <<"X-Other: ", "abc">>}

\* the header lines a request of the model carries at most
MaxHeaderLines == 2

\* the sequences of at most n header lines
RECURSIVE HeaderBlocks(_)
HeaderBlocks(n) ==
    IF n = 0 THEN {<<>>}
    ELSE HeaderBlocks(n - 1)
         \cup {Append(b, l) : b \in HeaderBlocks(n - 1), l \in HeaderLines}

FewHeaders ==
    {<<>>, <<<<"User-Agent: ", "curl">>>>,
     <<<<"Accept-Encoding: ", "gzip">>>>,
     <<<<"Accept-Encoding: ", "deflate", ", ", "gzip">>>>}

EncodingHeaders ==
    {<<<<"Accept-Encoding: ">>>>,
     <<<<"Accept-Encoding: ", "deflate">>>>,
     <<<<"Accept-Encoding: ", "gzip", ", ", "deflate">>>>}

Bodies == {<<"hello">>, <<"hi">>}

\* body lines that begin like a recognized header
HeaderLikeBodies ==
    {<<"Host: ">>, <<"User-Agent: ", "abc">>, <<"Accept-Encoding: ", "gzip">>}

\* requests that carry such a line in their body
HeaderLikeBodyRequests ==
    {RequestText(RequestLineText(m, p, Http11), h, b) :
        m \in {"GET", "POST"},
        p \in {<<SLASH, "user-agent">>, <<SLASH, "files", SLASH, "x">>},
        h \in {<<>>, <<<<"User-Agent: ", "curl">>>>},
        b \in HeaderLikeBodies}

\* request lines whose method is in mixed or lower case and whose version
\* is not 1.1
LetterCaseRequests ==
    {RequestText(RequestLineText(m, p, v), <<>>, <<"hello">>) :
        m \in {"Get", "post"},
        p \in {<<SLASH, "echo", SLASH, "abc">>,
               <<SLASH, "files", SLASH, "..", SLASH, "secret">>},
        v \in {Http11, <<"HTTP/", "x">>}}

FramingStreams ==
    {<<>>, <<CRLF>>, <<BAD_BYTE, BAD_BYTE>>,
     <<"A*4095">>, <<"A*4095", "x">>, <<"A*4095", "x", "x">>,
     <<BAD_BYTE, "A*4095">>,
     RequestText(RequestLineText("GET", <<SLASH>>, Http11),
                 <<<<"X-Other: ", "A*4050", "A*17">>>>, <<>>),
     RequestText(RequestLineText("GET", <<SLASH>>, Http11),
                 <<<<"X-Other: ", "A*4050", "hello", "hello", "abc",
                     "abc">>>>, <<>>)}

HandlerRequests ==
    {RequestText(l, h, <<"hello">>) : l \in GoodLines, h \in FewHeaders}
    \cup {RequestText(RequestLineText("GET", p, Http11), h, <<>>) :
            p \in {<<SLASH>>, <<SLASH, "user-agent">>},
            h \in HeaderBlocks(MaxHeaderLines)}
    \cup {RequestText(RequestLineText("GET", <<SLASH, "echo", SLASH, "abc">>,
                                      Http11), h, <<>>) :
            h \in EncodingHeaders}
    \cup {RequestText(l, h, <<>>) :
            l \in BadLines, h \in {<<>>, <<<<"Host: ">>>>}}
    \cup {RequestText(RequestLineText("POST", p, Http11), <<>>, b) :
            p \in {<<SLASH, "files", SLASH, "x">>}, b \in Bodies}
    \cup HeaderLikeBodyRequests
    \cup LetterCaseRequests
    \cup FramingStreams

ServerRequests ==
    {RequestText(RequestLineText("POST", p, Http11), <<>>, b) :
        p \in {<<SLASH, "files", SLASH, "x">>}, b \in Bodies}
    \cup {RequestText(RequestLineText("GET", <<SLASH, "files", SLASH, "x">>,
                                      Http11), h, <<>>) :
            h \in {<<>>, <<<<"Accept-Encoding: ", "gzip">>>>}}
    \cup {RequestText(RequestLineText(m, <<SLASH, "files", SLASH, "..",
                                            SLASH, "secret">>, Http11),
                      <<>>, <<"hello">>) : m \in {"GET", "POST"}}
    \cup {RequestText(<<"PUT", SP, SLASH, SP>> \o Http11, <<>>, <<>>)}

\* a request for each path through the handler: every route of get and of
\* post, every file outcome, and every kind of failure before routing
LiveRequests ==
    ServerRequests
    \cup {RequestText(RequestLineText(m, p, Http11), h, <<"hello">>) :
            m \in {"GET", "POST"},
            p \in {<<SLASH>>, <<SLASH, "echo", SLASH, "abc">>,
                   <<SLASH, "user-agent">>, <<SLASH, "files", SLASH>>,
                   <<SLASH, "files", SLASH, "nodir", SLASH, "x">>},
            h \in {<<>>, <<<<"Accept-Encoding: ", "gzip">>>>}}
    \cup {RequestText(RequestLineText("GET", <<SLASH>>, Http11), h, <<>>) :
            h \in {<<<<"Host: ">>>>, <<<<"User-Agent: ">>>>}}
    \cup FramingStreams

--------------------------------------------------------------------------
(* The specifications *)

\* the server: handlers of several connections, interleaved
Next ==
    \E c \in Conns :
        \/ Accept(c, ServerRequests)
        \/ Read(c)
        \/ FileRead(c)
        \/ FileWrite(c)
        \/ Respond(c)
        \/ Close(c)

Spec == Init /\ [][Next]_vars

\* one run of the handler, over the whole range of requests
HandlerNext ==
    \/ served = 0 /\ Accept(1, HandlerRequests)
    \/ Read(1)
    \/ FileRead(1)
    \/ FileWrite(1)
    \/ Respond(1)
    \/ Close(1)

HandlerSpec == Init /\ [][HandlerNext]_vars

\* one run of the handler, over a request for each of its paths
LiveNext ==
    \/ served = 0 /\ Accept(1, LiveRequests)
    \/ Read(1)
    \/ FileRead(1)
    \/ FileWrite(1)
    \/ Respond(1)
    \/ Close(1)

\* One run of the handler that is not left waiting: the task runs when it
\* can (tokio schedules every spawned task), fs::read_to_string and
\* fs::write return, and stream.read and write_all return, with data or
\* with an error, because the peer has sent its request and either takes
\* the response or is gone.  The handler sets no timeout of its own.
HandlerLiveSpec ==
    /\ Init
    /\ [][LiveNext]_vars
    /\ WF_vars(Read(1))
    /\ WF_vars(FileRead(1))
    /\ WF_vars(FileWrite(1))
    /\ WF_vars(Respond(1))

\* a response builder on its own
BuilderNext == BNew \/ BWithBody \/ BWithLocation \/ BBuild

BuilderSpec == Init /\ [][BuilderNext]_vars

--------------------------------------------------------------------------
(* Properties of the response builder and serializer *)

BuiltResponse == Unwrap(built.response)

\* the number a sequence of decimal digits spells
RECURSIVE FromDecimal(_)
FromDecimal(digits) ==
    IF digits = <<>> THEN 0
    ELSE 10 * FromDecimal(SubSeq(digits, 1, Len(digits) - 1))
         + (CHOOSE d \in 0..9 : Digit(d) = digits[Len(digits)])

\* what a client reads from the wire: the end of the head (the first blank
\* line), the Content-Length value and the bytes after the head
HeadEnd(bytes) ==
    CHOOSE i \in 1..(Len(bytes) - 1) :
        /\ bytes[i] = CRLF /\ bytes[i + 1] = CRLF
        /\ \A j \in 1..(i - 1) : ~(bytes[j] = CRLF /\ bytes[j + 1] = CRLF)
WireBody(bytes) == Drop(bytes, HeadEnd(bytes) + 1)
WireHeaderValue(bytes, name) ==
    LET head == Lines(SubSeq(bytes, 1, HeadEnd(bytes)))
        line == FindLine(head, <<name>>)
    IN  IF IsSome(line) THEN Some(Drop(Unwrap(line), 1)) ELSE None

\* C1: a response built with no header and no body serializes to exactly
\* its status line followed by one blank CRLF line and nothing else
C1_BareResponseIsStatusLineAndBlankLine ==
    (bpc = "built" /\ ~IsSome(BuiltResponse.header)
                   /\ ~IsSome(BuiltResponse.body))
        => built.bytes = StatusDisplay(BuiltResponse.status) \o <<CRLF>>

\* C8: in every response that has a body, built by any sequence of builder
\* operations, the Content-Length header is the byte length of the body
\* bytes emitted (of the compressed bytes when compression was applied)
C8_ContentLengthIsBodyLength ==
    /\ (bpc = "building" /\ IsSome(builder.body))
        => /\ IsSome(builder.header)
           /\ Unwrap(builder.header).content_length
                = ByteLen(Unwrap(builder.body))
    /\ (bpc = "built" /\ IsSome(BuiltResponse.body))
        => /\ IsSome(BuiltResponse.header)
           /\ Unwrap(BuiltResponse.header).content_length
                = ByteLen(Unwrap(BuiltResponse.body))
           /\ WireBody(built.bytes) = Unwrap(BuiltResponse.body)
           /\ IsSome(WireHeaderValue(built.bytes, "Content-Length: "))
           /\ FromDecimal(Unwrap(WireHeaderValue(built.bytes,
                                                 "Content-Length: ")))
                = ByteLen(WireBody(built.bytes))

\* C8 happens: a built response whose body was set twice, is compressed,
\* and whose header got a Location
C8_Witness ==
    /\ bpc = "built"
    /\ IsSome(BuiltResponse.body)
    /\ IsGzip(Unwrap(BuiltResponse.body))
    /\ Gunzip(Unwrap(BuiltResponse.body)) = <<"abc", "x">>
    /\ IsSome(Unwrap(BuiltResponse.header).location)
    /\ Unwrap(BuiltResponse.header).content_length = 24

--------------------------------------------------------------------------
(* Properties of one connection handler *)

\* the handler has read, and has not been reset since
HasRead(c) == conn[c].reads > 0 /\ conn[c].error # "UnreadableStream"

\* the handler has returned
Returned(c) == conn[c].pc \in {"done", "failed"}

\* the read did not fill the buffer, the bytes are UTF-8 and hold a line
Decoded(c) ==
    /\ HasRead(c)
    /\ conn[c].n < BufSize
    /\ \A i \in 1..Len(conn[c].buf) : conn[c].buf[i] # BAD_BYTE
    /\ Lines(conn[c].buf) # <<>>

ReadLine(c) == RequestLineFromStr(Lines(conn[c].buf)[1])
ReadHeader(c) == RequestHeaderFromStr(conn[c].buf)

\* the request line and the headers of the request parse
Parsed(c) == Decoded(c) /\ ReadLine(c).ok /\ ReadHeader(c).ok

\* nothing was built and nothing was written
NothingWritten(c) == conn[c].wire = <<>> /\ ~IsSome(conn[c].response)

\* the errors of the request line and of the headers
RequestLineErrors ==
    {"MissingMethod", "MissingPath", "MissingVersion", "InvalidHTTPMethod",
     "InvalidHTTPPath", "InvalidHTTPVersionFormat", "MissingVersionNumber"}
RequestHeaderErrors ==
    {"InvalidHost", "InvalidUserAgent", "InvalidAcceptEncoding"}

\* the first line of the request with the given name has an empty value
FirstValueEmpty(buf, name) ==
    LET line == FindLine(Lines(buf), <<name>>)
    IN  IsSome(line) /\ Unwrap(line) = <<name>>

\* C2 as stated: a request that was read and decoded and has a request line
\* or header error is answered in band with 400, 404 or 500, and the
\* handler returns an error only when the response cannot be written
C2_SyntaxErrorsAnsweredInBand ==
    \A c \in Conns :
        (Returned(c) /\ Decoded(c) /\ ~Parsed(c))
            => /\ IsSome(conn[c].response)
               /\ Unwrap(conn[c].response).status
                    \in {"Http400", "Http404", "Http500"}
               /\ conn[c].pc = "failed" => conn[c].error = "ClientUnreachable"

\* the handler returned the error, built nothing and wrote nothing
Aborted(c, errors) ==
    /\ conn[c].pc = "failed"
    /\ conn[c].error \in errors
    /\ NothingWritten(c)

\* C2: a request line or header error makes the handler return that error
\* with nothing built and nothing written, as the framing failures do;
\* bytes reach the connection only for requests whose line and headers
\* parsed
C2_SyntaxErrorsAbortHandler ==
    \A c \in Conns :
        IF ~HasRead(c) THEN NothingWritten(c)
        ELSE IF ~Decoded(c)
        THEN Aborted(c, {"RequestTooLarge", "Utf8Error", "NoRequestLineFound"})
        ELSE \A request_line \in {ReadLine(c)} :
                IF ~request_line.ok
                THEN /\ Aborted(c, {request_line.err})
                     /\ request_line.err \in RequestLineErrors
                ELSE \A request_header \in {ReadHeader(c)} :
                        ~request_header.ok
                            => /\ Aborted(c, {request_header.err})
                               /\ request_header.err \in RequestHeaderErrors

\* C2 happens: a decoded request with a good request line and an empty
\* Host value made the handler return InvalidHost
C2_Witness ==
    \E c \in Conns :
        /\ Returned(c) /\ Decoded(c)
        /\ conn[c].error = "InvalidHost"
        /\ ReadLine(c).ok
        /\ FirstValueEmpty(conn[c].buf, "Host: ")

\* the request is a GET of exactly "/"
IsGetRoot(request_line) ==
    /\ request_line.ok
    /\ request_line.val.method = "Get"
    /\ request_line.val.path = <<SLASH>>

BareResponse(status) == [status |-> status, header |-> None, body |-> None]

\* C5 as stated: a GET of exactly "/" produces 200 with no body whatever
\* its header lines are
C5_GetRootAlways200 ==
    \A c \in Conns :
        (Returned(c) /\ Decoded(c) /\ IsGetRoot(ReadLine(c)))
            => conn[c].response = Some(BareResponse("Http200"))

\* C5: a GET of exactly "/" produces 200 with no header and no body unless
\* the first Host, User-Agent or Accept-Encoding line of the request has an
\* empty value; then the handler returns the header error and writes nothing
C5_GetRoot200UnlessEmptyHeaderValue ==
    \A c \in Conns :
        (HasRead(c) /\ Decoded(c) /\ IsGetRoot(ReadLine(c)))
            => IF FirstValueEmpty(conn[c].buf, "Host: ")
               THEN Aborted(c, {"InvalidHost"})
               ELSE IF FirstValueEmpty(conn[c].buf, "User-Agent: ")
               THEN Aborted(c, {"InvalidUserAgent"})
               ELSE IF FirstValueEmpty(conn[c].buf, "Accept-Encoding: ")
               THEN Aborted(c, {"InvalidAcceptEncoding"})
               ELSE /\ conn[c].response = Some(BareResponse("Http200"))
                    /\ conn[c].pc \in {"respond", "done"}
                        \/ (conn[c].pc = "failed"
                            /\ conn[c].error = "ClientUnreachable")
                    /\ conn[c].pc = "done"
                        => StartsWith(conn[c].wire,
                                      StatusDisplay("Http200"))

\* C5 happens: a GET of "/" with a User-Agent line and an unknown line was
\* answered 200, with no header and no body
C5_Witness ==
    \E c \in Conns :
        /\ conn[c].pc = "done" /\ Decoded(c) /\ IsGetRoot(ReadLine(c))
        /\ Len(Lines(conn[c].buf)) >= 3
        /\ Lines(conn[c].buf)[2] = <<"X-Other: ", "abc">>
        /\ Lines(conn[c].buf)[3] = <<"User-Agent: ", "curl">>
        /\ conn[c].response = Some(BareResponse("Http200"))

\* the rows of the routing table: no row matches the method and the path
Unrouted(method, path) ==
    IF method = "Get"
    THEN /\ path # <<SLASH>>
         /\ path # <<SLASH, "user-agent">>
         /\ ~StartsWith(path, <<SLASH, "echo", SLASH>>)
         /\ ~StartsWith(path, <<SLASH, "files", SLASH>>)
    ELSE ~StartsWith(path, <<SLASH, "files", SLASH>>)

\* C6: every request that matches no row of the routing table (a GET of a
\* path other than "/", "/user-agent", /echo/<segment> or /files/<name>; a
\* POST of a path other than /files/<name>) gets 404 with no header and no
\* body
C6_UnroutedGets404 ==
    \A c \in Conns :
        (HasRead(c) /\ Parsed(c)
         /\ Unrouted(ReadLine(c).val.method, ReadLine(c).val.path))
            => conn[c].response = Some(BareResponse("Http404"))

\* C7: a read that returns exactly BufSize bytes makes the handler return
\* RequestTooLarge whatever the bytes are, before anything is decoded or
\* parsed, with no second read and nothing written; a read that returns
\* fewer bytes never ends in RequestTooLarge
C7_FullBufferIsRequestTooLarge ==
    \A c \in Conns :
        /\ conn[c].reads <= 1
        /\ (HasRead(c) /\ conn[c].n = BufSize)
            => /\ Aborted(c, {"RequestTooLarge"})
               /\ conn[c].line = NoRequestLine
               /\ conn[c].header = NoRequestHeader
               /\ conn[c].op = "none"
        /\ (HasRead(c) /\ conn[c].n < BufSize)
            => conn[c].error # "RequestTooLarge"

\* C7 happens: a well-formed GET of "/" of exactly BufSize bytes was read
\* whole and refused
C7_Witness ==
    \E c \in Conns :
        /\ conn[c].pc = "failed" /\ conn[c].error = "RequestTooLarge"
        /\ conn[c].n = BufSize
        /\ ByteLen(conn[c].buf) = BufSize
        /\ IsGetRoot(RequestLineFromStr(Lines(conn[c].buf)[1]))
        /\ RequestHeaderFromStr(conn[c].buf).ok
        /\ conn[c].buf[Len(conn[c].buf)] = CRLF

\* the request negotiates gzip: the first token of the value of its first
\* Accept-Encoding line is gzip
NegotiatesGzip(buf) ==
    LET line == FindLine(Lines(buf), <<"Accept-Encoding: ">>)
    IN  /\ IsSome(line)
        /\ Len(Unwrap(line)) >= 2
        /\ Unwrap(line)[2] = "gzip"

\* the path segment that follows /echo/
EchoSegment(path) ==
    LET rest == SubSeq(path, 4, Len(path))
        stops == {i \in 1..Len(rest) : rest[i] = SLASH}
    IN  IF stops = {} THEN rest
        ELSE SubSeq(rest, 1, (CHOOSE i \in stops : \A j \in stops : i <= j) - 1)

\* the handler of c has a response with a body
HasContent(c) ==
    /\ IsSome(conn[c].response)
    /\ IsSome(Unwrap(conn[c].response).body)

\* the content the route of the request answers with, for the routes that
\* answer with a body
OriginalContent(c, method, path) ==
    LET status == Unwrap(conn[c].response).status
    IN  CASE status = "Http201" -> <<"Resource created successfully">>
          [] status = "Http500" -> <<"Failed to write file">>
          [] status = "Http400" /\ method = "Post"
                -> <<"No filepath specified">>
          [] status = "Http400" /\ method = "Get"
                /\ StartsWith(path, <<SLASH, "files", SLASH>>)
                -> <<"File asked but no filename provided">>
          [] status = "Http400" /\ method = "Get"
                /\ ~StartsWith(path, <<SLASH, "files", SLASH>>)
                -> <<"Missing User-Agent header">>
          [] status = "Http200" /\ StartsWith(path, <<SLASH, "echo", SLASH>>)
                -> EchoSegment(path)
          [] status = "Http200" /\ StartsWith(path, <<SLASH, "user-agent">>)
                -> Drop(Unwrap(FindLine(Lines(conn[c].buf),
                                        <<"User-Agent: ">>)), 1)
          [] status = "Http200" /\ StartsWith(path, <<SLASH, "files", SLASH>>)
                -> fs[Unwrap(conn[c].target)]

IsGetEcho(request_line) ==
    /\ request_line.ok
    /\ request_line.val.method = "Get"
    /\ StartsWith(request_line.val.path, <<SLASH, "echo", SLASH>>)

\* C10: a GET of /echo/<s> is answered 200 with Content-Type text/plain,
\* the body <s> (the segment that follows /echo/, possibly empty) and the
\* Content-Length of <s>, or of its compressed form when gzip is
\* negotiated; without gzip the wire bytes are the status line, the
\* Content-Type line, the Content-Length line, a blank line and <s>
C10_EchoAnswersSegment ==
    \A c \in Conns :
        (HasRead(c) /\ Decoded(c))
            => \A request_line \in {ReadLine(c)} :
                (IsGetEcho(request_line) /\ ReadHeader(c).ok)
                    => /\ IsSome(conn[c].response)
                       /\ conn[c].op = "none"
                       /\ LET s == EchoSegment(request_line.val.path)
                              response == Unwrap(conn[c].response)
                              header == Unwrap(response.header)
                              body == Unwrap(response.body)
                          IN  /\ response.status = "Http200"
                              /\ IsSome(response.header)
                              /\ IsSome(response.body)
                              /\ header.content_type = "TextPlain"
                              /\ header.location = None
                              /\ IF NegotiatesGzip(conn[c].buf)
                                 THEN /\ Gunzip(body) = s
                                      /\ header.content_length
                                           = ByteLen(GzipParse(s))
                                 ELSE /\ body = s
                                      /\ header.content_length = ByteLen(s)
                                      /\ conn[c].pc = "done"
                                          => conn[c].wire =
                                               <<"HTTP/1.1 200 OK", CRLF,
                                                 "Content-Type: ",
                                                 "text/plain", CRLF,
                                                 "Content-Length: ">>
                                               \o ToDecimal(ByteLen(s))
                                               \o <<CRLF, CRLF>> \o s

\* C10 happens: GET /echo/abc/x was answered with the body abc
C10_Witness ==
    \E c \in Conns :
        /\ conn[c].pc = "done" /\ Decoded(c)
        /\ ReadLine(c) = Ok([method |-> "Get",
                             path |-> <<SLASH, "echo", SLASH, "abc",
                                        SLASH, "x">>,
                             version |-> <<"1.1">>])
        /\ ~NegotiatesGzip(conn[c].buf)
        /\ WireBody(conn[c].wire) = <<"abc">>

--------------------------------------------------------------------------
(* Properties of the server and the files *)

\* the components of the serving directory
RootComponents == <<<<"srv">>, <<"data">>>>

\* C4: every file a GET /files/<name> reads or a POST /files/<name> writes
\* lies under the serving directory, whatever <name> is
C4_FileAccessUnderRoot ==
    \A c \in Conns :
        (conn[c].op \in {"read", "write"} /\ IsSome(conn[c].target))
            => /\ StartsWith(Unwrap(conn[c].target), RootComponents)
               /\ Len(Unwrap(conn[c].target)) > Len(RootComponents)

\* the handler of c has built or sent a 201
Answers201(c) ==
    /\ IsSome(conn[c].response)
    /\ Unwrap(conn[c].response).status = "Http201"

\* a 201 follows the write of the body of the request to <directory>/<name>
\* and names that path in Location; the file holds the body from the 201
\* until the next write to it
CreatedFileHoldsBody ==
    /\ \A p \in DOMAIN acked : p \in DOMAIN fs /\ fs[p] = acked[p]
    /\ \A c \in Conns :
        Answers201(c)
            => /\ conn[c].op = "write"
               /\ Parsed(c)
               /\ ReadLine(c).val.method = "Post"
               /\ StartsWith(ReadLine(c).val.path, <<SLASH, "files", SLASH>>)
               /\ IsSome(directory)
               /\ conn[c].file = Unwrap(directory) \o <<SLASH>>
                                   \o Drop(ReadLine(c).val.path, 3)
               /\ Unwrap(Unwrap(conn[c].response).header).location
                    = Some(conn[c].file)
               /\ Resolve(conn[c].file) = Ok(Unwrap(conn[c].target))
               /\ RequestBodyFromStr(conn[c].buf) = Ok(conn[c].content)
               /\ Unwrap(conn[c].target) \in DOMAIN fs
               /\ writer[Unwrap(conn[c].target)] = c
                    => fs[Unwrap(conn[c].target)] = conn[c].content
               /\ (conn[c].pc = "done"
                   /\ writer[Unwrap(conn[c].target)] = c)
                    => acked[Unwrap(conn[c].target)] = conn[c].content

\* the handler of c read a file whose last write had been answered 201
ReadsCreatedFile(c) ==
    /\ conn[c].op = "read"
    /\ IsSome(conn[c].seen)
    /\ IsSome(conn[c].response)

\* C3 as stated: the file holds b after the 201, it was written before the
\* 201 and Location names it, and a later GET of it with no write in
\* between returns 200, application/octet-stream and the body exactly b
C3_GetAfterCreateReturnsBodyExactly ==
    /\ CreatedFileHoldsBody
    /\ \A c \in Conns :
        ReadsCreatedFile(c)
            => LET response == Unwrap(conn[c].response)
               IN  /\ response.status = "Http200"
                   /\ Unwrap(response.header).content_type = "OctetStream"
                   /\ response.body = conn[c].seen

\* C3: the file holds b after the 201, it was written before the 201 and
\* Location names it, and a later GET of it with no write in between
\* returns 200, application/octet-stream and the body b, or the gzip form
\* of b with Content-Encoding: gzip when the GET negotiates gzip
C3_GetAfterCreateReturnsBodyOrItsGzip ==
    /\ CreatedFileHoldsBody
    /\ \A c \in Conns :
        ReadsCreatedFile(c)
            => LET response == Unwrap(conn[c].response)
                   header == Unwrap(response.header)
                   body == Unwrap(response.body)
                   b == Unwrap(conn[c].seen)
               IN  /\ response.status = "Http200"
                   /\ header.content_type = "OctetStream"
                   /\ header.location = None
                   /\ IF NegotiatesGzip(conn[c].buf)
                      THEN /\ header.content_encoding = Some("gzip")
                           /\ Gunzip(body) = b
                           /\ header.content_length = ByteLen(b) + 20
                      ELSE /\ header.content_encoding = None
                           /\ body = b
                           /\ header.content_length = ByteLen(b)
                   /\ conn[c].pc = "done"
                        => /\ WireBody(conn[c].wire) = body
                           /\ WireHeaderValue(conn[c].wire, "Content-Type: ")
                                = Some(<<"application/octet-stream">>)

\* C3 happens: one connection was answered 201 for POST /files/x with the
\* body hello, and another then got hello back, compressed, from
\* GET /files/x
C3_Witness ==
    \E c, d \in Conns :
        /\ conn[c].pc = "done" /\ Answers201(c)
        /\ conn[c].content = <<"hello">>
        /\ fs[Unwrap(conn[c].target)] = <<"hello">>
        /\ conn[d].pc = "done" /\ ReadsCreatedFile(d)
        /\ conn[d].target = conn[c].target
        /\ conn[d].seen = Some(<<"hello">>)
        /\ NegotiatesGzip(conn[d].buf)
        /\ Gunzip(WireBody(conn[d].wire)) = <<"hello">>

--------------------------------------------------------------------------
(* Properties of the routes *)

\* the request is a GET of exactly /user-agent
IsGetUserAgent(request_line) ==
    /\ request_line.ok
    /\ request_line.val.method = "Get"
    /\ request_line.val.path = <<SLASH, "user-agent">>

\* the first User-Agent line of the request, if any
UserAgentLine(buf) == FindLine(Lines(buf), <<"User-Agent: ">>)

\* a response with a text body: its status, and its content once decoded
TextResponse(status, content, gzip) ==
    [status |-> status,
     header |-> Some([content_type |-> "TextPlain",
                      content_length |->
                          IF gzip THEN ByteLen(content) + 20
                          ELSE ByteLen(content),
                      location |-> None,
                      content_encoding |->
                          IF gzip THEN Some("gzip") ELSE None]),
     body |-> Some(IF gzip THEN GzipParse(content) ELSE content)]

\* C11 as stated: GET /user-agent returns 200 with the text/plain body
\* equal to the User-Agent value when the header is present, and 400 with
\* the text/plain body "Missing User-Agent header", Content-Length 25, when
\* it is absent
C11_UserAgentBodyIsValue ==
    \A c \in Conns :
        (HasRead(c) /\ Decoded(c))
            => \A request_line \in {ReadLine(c)} :
                (IsGetUserAgent(request_line) /\ ReadHeader(c).ok)
                    => \A line \in {UserAgentLine(conn[c].buf)} :
                        conn[c].response =
                            Some(IF IsSome(line)
                                 THEN TextResponse("Http200",
                                          Drop(Unwrap(line), 1), FALSE)
                                 ELSE TextResponse("Http400",
                                          <<"Missing User-Agent header">>,
                                          FALSE))

\* C11: GET /user-agent returns 200 with Content-Type text/plain and the
\* User-Agent value as content when the request has a User-Agent line, and
\* 400 with the content "Missing User-Agent header" when it has none; the
\* body is the content (Content-Length 25 for the 400) or, when gzip is
\* negotiated, its gzip form with Content-Encoding: gzip
C11_UserAgentContentIsValue ==
    \A c \in Conns :
        (HasRead(c) /\ Decoded(c))
            => \A request_line \in {ReadLine(c)} :
                (IsGetUserAgent(request_line) /\ ReadHeader(c).ok)
                    => \A line \in {UserAgentLine(conn[c].buf)},
                          gzip \in {NegotiatesGzip(conn[c].buf)} :
                        /\ conn[c].response =
                             Some(IF IsSome(line)
                                  THEN TextResponse("Http200",
                                           Drop(Unwrap(line), 1), gzip)
                                  ELSE TextResponse("Http400",
                                           <<"Missing User-Agent header">>,
                                           gzip))
                        /\ (~IsSome(line) /\ ~gzip /\ conn[c].pc = "done")
                            => /\ WireHeaderValue(conn[c].wire,
                                                  "Content-Length: ")
                                    = Some(<<"2", "5">>)
                               /\ WireBody(conn[c].wire)
                                    = <<"Missing User-Agent header">>

\* C11 happens: a GET /user-agent with User-Agent: curl was answered 200
\* with the body curl, and the handler is done
C11_Witness ==
    \E c \in Conns :
        /\ conn[c].pc = "done" /\ Decoded(c)
        /\ IsGetUserAgent(ReadLine(c))
        /\ UserAgentLine(conn[c].buf) = Some(<<"User-Agent: ", "curl">>)
        /\ ~NegotiatesGzip(conn[c].buf)
        /\ StartsWith(conn[c].wire, StatusDisplay("Http200"))
        /\ WireBody(conn[c].wire) = <<"curl">>

\* the request line and the headers parsed, and the path is /files/<name>
IsFilesRequest(c, request_line) ==
    /\ request_line.ok
    /\ StartsWith(request_line.val.path, <<SLASH, "files", SLASH>>)
    /\ ReadHeader(c).ok

\* the text of the 400 each method answers an empty <name> with
NoNameText(method) ==
    IF method = "Get" THEN <<"File asked but no filename provided">>
    ELSE <<"No filepath specified">>

\* the handler of c returned no error of its own: it went on to send its
\* response, and only that send can have failed
AnsweredInBand(c) ==
    /\ IsSome(conn[c].response)
    /\ conn[c].error \in {"none", "ClientUnreachable"}
    /\ conn[c].error = "ClientUnreachable" => conn[c].pc = "failed"
    /\ conn[c].pc = "done" => conn[c].wire # <<>>

\* The error outcomes of the /files/ routes, where the text of a response
\* is sent compressed when gzip tells so
FilesErrorsAre(c, request_line, gzip) ==
    LET method == request_line.val.method
        name == Drop(request_line.val.path, 3)
    IN  IF name = <<>>
        THEN /\ conn[c].response =
                  Some(TextResponse("Http400", NoNameText(method), gzip))
             /\ conn[c].op = "none"
             /\ AnsweredInBand(c)
        ELSE IF ~IsSome(directory)
        THEN /\ conn[c].response = Some(BareResponse("Http404"))
             /\ conn[c].op = "none"
             /\ AnsweredInBand(c)
        ELSE /\ (conn[c].op = "read" /\ ~ReadToString(fs, conn[c].file).ok)
                    => /\ conn[c].response = Some(BareResponse("Http404"))
                       /\ AnsweredInBand(c)
             /\ (conn[c].op = "write" /\ ~IsSome(conn[c].target))
                    => /\ conn[c].response =
                            Some(TextResponse("Http500",
                                     <<"Failed to write file">>, gzip))
                       /\ AnsweredInBand(c)

\* C12 as stated: an empty <name> gives 400 with the body "File asked but
\* no filename provided" (GET) or "No filepath specified" (POST) with or
\* without a directory; a non-empty <name> with no directory gives 404 with
\* an empty body; a GET whose read fails gives 404 with an empty body; a
\* POST whose write fails gives 500 with the body "Failed to write file";
\* none of these aborts the handler
C12_FilesErrorBodiesAreTexts ==
    \A c \in Conns :
        (HasRead(c) /\ Decoded(c))
            => \A request_line \in {ReadLine(c)} :
                IsFilesRequest(c, request_line)
                    => FilesErrorsAre(c, request_line, FALSE)

\* C12: the same outcomes, where the body of the 400 and of the 500 is the
\* stated text or, when the request negotiates gzip, the gzip form of that
\* text with Content-Encoding: gzip
C12_FilesErrorsAnsweredInBand ==
    \A c \in Conns :
        (HasRead(c) /\ Decoded(c))
            => \A request_line \in {ReadLine(c)} :
                IsFilesRequest(c, request_line)
                    => FilesErrorsAre(c, request_line,
                                      NegotiatesGzip(conn[c].buf))

\* C12 happens: a POST whose write failed was answered 500 with the body
\* "Failed to write file", and the handler is done
C12_Witness ==
    \E c \in Conns :
        /\ conn[c].pc = "done" /\ conn[c].op = "write"
        /\ ~IsSome(conn[c].target)
        /\ StartsWith(conn[c].wire, StatusDisplay("Http500"))
        /\ WireBody(conn[c].wire) = <<"Failed to write file">>

--------------------------------------------------------------------------
(* Properties of the request parsers *)

\* the request up to its first blank line: the request line and the header
\* lines, without the body
RequestHead(buf) ==
    LET seps == {i \in 1..(Len(buf) - 1) : buf[i] = CRLF /\ buf[i + 1] = CRLF}
    IN  IF seps = {} THEN buf
        ELSE SubSeq(buf, 1, CHOOSE i \in seps : \A j \in seps : i <= j)

\* C13: the headers of a request are those of the lines after the request
\* line and before the first blank line; a line of the body that begins
\* with "Host: ", "User-Agent: " or "Accept-Encoding: " gives no header
\* value and raises no header error
C13_BodyLinesAreNotHeaders ==
    \A c \in Conns :
        (HasRead(c) /\ Decoded(c))
            => \A request_line \in {ReadLine(c)} :
                request_line.ok
                    => \A head \in {RequestHeaderFromStr(
                                        RequestHead(conn[c].buf))} :
                        IF head.ok
                        THEN /\ conn[c].error \notin RequestHeaderErrors
                             /\ conn[c].header = head.val
                        ELSE conn[c].error = head.err

\* the method tokens that are GET, and those that are POST, in some
\* letter case
GetTokens == {"GET", "get", "Get"}
PostTokens == {"POST", "post"}

\* the line is <METHOD> <PATH> <VERSION> with METHOD a GET or POST token,
\* PATH beginning with '/' and VERSION "HTTP/" and a non-empty suffix
WellFormedLine(tokens) ==
    /\ Len(tokens) = 3
    /\ Len(tokens[1]) = 1 /\ tokens[1][1] \in GetTokens \cup PostTokens
    /\ tokens[2] # <<>> /\ tokens[2][1] = SLASH
    /\ Len(tokens[3]) >= 2 /\ tokens[3][1] = "HTTP/"

IsMethodToken(tok) ==
    Len(tok) = 1 /\ tok[1] \in GetTokens \cup PostTokens

\* C15: a buffer with no line fails with NoRequestLineFound; a first line
\* with no token fails with MissingMethod; a line with one token, or whose
\* second token does not begin with '/', fails with MissingPath; a line
\* with a valid path and no third token fails with MissingVersion; these
\* are reported whatever the method token is, and a line with three tokens,
\* a valid path and a method token that is neither GET nor POST fails with
\* InvalidHTTPMethod
C15_FirstMissingPieceIsNamed ==
    \A c \in Conns :
        (/\ HasRead(c) /\ conn[c].n < BufSize
         /\ \A i \in 1..Len(conn[c].buf) : conn[c].buf[i] # BAD_BYTE)
            => IF Lines(conn[c].buf) = <<>>
               THEN Aborted(c, {"NoRequestLineFound"})
               ELSE \A tokens \in {SplitWhitespace(Lines(conn[c].buf)[1])} :
                    IF Len(tokens) = 0 THEN Aborted(c, {"MissingMethod"})
                    ELSE IF Len(tokens) = 1 THEN Aborted(c, {"MissingPath"})
                    ELSE IF tokens[2][1] # SLASH
                    THEN Aborted(c, {"MissingPath"})
                    ELSE IF Len(tokens) = 2
                    THEN Aborted(c, {"MissingVersion"})
                    ELSE ~IsMethodToken(tokens[1])
                            => Aborted(c, {"InvalidHTTPMethod"})

\* C15 happens: the line "PUT /", whose method token is invalid and whose
\* version is missing, failed with MissingVersion
C15_Witness ==
    \E c \in Conns :
        /\ HasRead(c)
        /\ Lines(conn[c].buf) # <<>>
        /\ SplitWhitespace(Lines(conn[c].buf)[1]) = << <<"PUT">>, <<SLASH>> >>
        /\ Aborted(c, {"MissingVersion"})

\* the header lines of a request: the lines after the request line and
\* before the first blank line
HeaderLinesOf(buf) ==
    LET lines == Lines(RequestHead(buf))
    IN  SubSeq(lines, 2, Len(lines))

\* the body of the request holds no line that begins like a header
PlainBody(buf) ==
    \A i \in (Len(RequestHead(buf)) + 1)..Len(buf) :
        buf[i] \notin {"Host: ", "User-Agent: ", "Accept-Encoding: "}

\* the orderings of a sequence of lines
Orderings(lines) ==
    LET n == Len(lines)
        perms == {p \in [1..n -> 1..n] : \A i, j \in 1..n : p[i] = p[j] => i = j}
    IN  {[i \in 1..n |-> lines[p[i]]] : p \in perms}

RecognizedPrefixes == {"Host: ", "User-Agent: ", "Accept-Encoding: "}
IsRecognized(line) == line # <<>> /\ line[1] \in RecognizedPrefixes

\* C16: header parsing gives the same result for every ordering of the
\* same header lines, ignores the lines with unknown names, yields absent
\* for a recognized header that does not occur, and fails if and only if
\* some recognized header line has an empty value after its prefix
C16_HeaderParsingIsOrderIndependent ==
    \A c \in Conns :
        (HasRead(c) /\ Decoded(c) /\ PlainBody(conn[c].buf))
            => \A request_line \in {ReadLine(c)} :
                request_line.ok
                    => \A lines \in {HeaderLinesOf(conn[c].buf)},
                          header \in {ReadHeader(c)} :
                        /\ \A o \in Orderings(lines) :
                               RequestHeaderFromStr(HeaderBlock(o)) = header
                        /\ RequestHeaderFromStr(
                               HeaderBlock(SelectSeq(lines, IsRecognized)))
                             = header
                        /\ header.ok
                            => /\ IsSome(header.val.host)
                                    <=> \E i \in 1..Len(lines) :
                                           StartsWith(lines[i], <<"Host: ">>)
                               /\ IsSome(header.val.user_agent)
                                    <=> \E i \in 1..Len(lines) :
                                           StartsWith(lines[i],
                                                      <<"User-Agent: ">>)
                        /\ ~header.ok
                            <=> \E i \in 1..Len(lines) :
                                   /\ IsRecognized(lines[i])
                                   /\ Len(lines[i]) = 1
                        /\ ~header.ok => Aborted(c, {header.err})

--------------------------------------------------------------------------
(* Properties of the handlers of several connections *)

\* C17 as stated: under every interleaving the response of a connection is
\* the one its handler gives when it is handled alone
C17_SameAsHandledAlone ==
    \A c \in Conns :
        IsSome(conn[c].response) => conn[c].response = conn[c].alone

\* the bodies the POST requests of the server carry
PostedBodies ==
    {RequestBodyFromStr(r).val :
        r \in {q \in ServerRequests : RequestBodyFromStr(q).ok}}

\* the response of c is the one it gives alone, unless it read a file that
\* another handler wrote after c had read its request: then it is the
\* response to what that handler wrote
AloneUpToFileWrites(c) ==
    IF conn[c].op = "read" /\ conn[c].response # conn[c].alone
    THEN /\ IsSome(conn[c].target)
         /\ Unwrap(conn[c].target) \in DOMAIN writer
         /\ writer[Unwrap(conn[c].target)] # c
         /\ \E b \in PostedBodies :
                conn[c].response = Some(GetFileRead(Ok(b), conn[c].header))
    ELSE conn[c].response = conn[c].alone

\* a step changes the state of one handler at most and never the serving
\* directory, and a step in which a handler fails changes nothing else
HandlersIsolated ==
    /\ directory' = directory
    /\ \A c, d \in Conns :
           c # d => (conn'[c] = conn[c] \/ conn'[d] = conn[d])
    /\ \A c \in Conns :
           (conn[c].pc # "failed" /\ conn'[c].pc = "failed")
               => /\ fs' = fs
                  /\ \A d \in Conns \ {c} : conn'[d] = conn[d]

\* C17: the handlers share the serving directory, which no step modifies,
\* and the files; a step of one handler touches the state of no other, an
\* abort of one handler leaves the others and the files as they are, and
\* under every interleaving the response of a connection is the one it
\* gives alone, except that a GET /files/<name> answers with what another
\* handler's POST wrote to the file in between
C17_HandlersShareOnlyFiles ==
    /\ [](\A c \in Conns : IsSome(conn[c].response) => AloneUpToFileWrites(c))
    /\ [][HandlersIsolated]_vars

\* C17 happens: one handler aborted on its request line while another
\* one, still open, had written its file and answered as it does alone
C17_Witness ==
    \E c, d \in Conns :
        /\ c # d
        /\ Aborted(c, {"InvalidHTTPMethod"})
        /\ conn[d].pc = "done" /\ conn[d].op = "write"
        /\ conn[d].response = conn[d].alone
        /\ StartsWith(conn[d].wire, StatusDisplay("Http201"))

--------------------------------------------------------------------------
(* Properties of one run of the handler in time *)

\* how far the handler of a connection is
Stage(pc) ==
    CASE pc = "idle" -> 0
      [] pc = "accepted" -> 1
      [] pc \in {"file_read", "file_write"} -> 2
      [] pc = "respond" -> 3
      [] pc \in {"done", "failed"} -> 4

\* the bytes are a part of the whole, and not all of it
ProperPrefix(part, whole) ==
    Len(part) < Len(whole) /\ part = SubSeq(whole, 1, Len(part))

OneOutcome(c) ==
    /\ conn[c].reads = 1
    /\ IF ~HasRead(c) \/ ~Decoded(c) THEN conn[c].pc = "failed"
       ELSE \A request_line \in {ReadLine(c)} :
            IF ~(request_line.ok /\ ReadHeader(c).ok)
            THEN conn[c].pc = "failed" /\ NothingWritten(c)
            ELSE \/ /\ conn[c].pc = "done"
                    /\ IsSome(conn[c].response)
                    /\ conn[c].wire = AsHttpBytes(Unwrap(conn[c].response))
                 \/ /\ conn[c].pc = "failed"
                    /\ conn[c].error = "ClientUnreachable"
                    /\ IsSome(conn[c].response)
                    /\ ProperPrefix(conn[c].wire,
                                    AsHttpBytes(Unwrap(conn[c].response)))
                 \/ /\ conn[c].pc = "failed"
                    /\ conn[c].error = "RequestBodyError"
                    /\ request_line.val.method = "Post"
                    /\ NothingWritten(c)

\* every step of a handler takes it further, so that it reads, reaches a
\* file, and writes once at most; bytes are written by its one write only,
\* and once it has returned nothing follows but the end of the connection
NoRetry ==
    \A c \in Conns :
        /\ conn'[c] # conn[c]
            => \/ Stage(conn'[c].pc) > Stage(conn[c].pc)
               \/ Returned(c) /\ conn'[c] = Idle
        /\ conn'[c].reads <= 1
        /\ conn'[c].wire # conn[c].wire
            => \/ conn[c].pc = "respond" /\ conn[c].wire = <<>>
               \/ conn'[c] = Idle
        /\ conn'[c].op # conn[c].op
            => \/ conn[c].op = "none"
               \/ conn'[c] = Idle

--------------------------------------------------------------------------
(* Properties of the files *)

\* the handler of c is at the write of a POST /files/<name> with a name,
\* under a configured directory, whose request line and headers parsed
IsFilePost(c) ==
    /\ conn[c].pc = "file_write"
    /\ IsSome(directory)
    /\ HasRead(c) /\ Decoded(c)
    /\ \A request_line \in {ReadLine(c)} :
        /\ request_line.ok
        /\ ReadHeader(c).ok
        /\ request_line.val.method = "Post"
        /\ StartsWith(request_line.val.path, <<SLASH, "files", SLASH>>)
        /\ Drop(request_line.val.path, 3) # <<>>
        /\ conn[c].file = FilePath(Unwrap(directory),
                                   Drop(request_line.val.path, 3))

\* the files differ in the one the path names, and in no other
OnlyFileTouched(path) ==
    \A target \in {Resolve(path)} :
        /\ target.ok
        /\ DOMAIN fs' = DOMAIN fs \cup {target.val}
        /\ \A p \in DOMAIN fs \ {target.val} : fs'[p] = fs[p]

\* a step that changes the files is the write of such a POST, and changes
\* the one file <directory>/<name>
FilesChangeByPostOnly ==
    fs' # fs
        => \E c \in Conns :
            /\ conn'[c] # conn[c]
            /\ IsFilePost(c)
            /\ OnlyFileTouched(conn[c].file)

\* the file a POST wrote holds what it wrote although the 201 could not be
\* sent, as long as no other handler has written it since
WrittenStaysWritten ==
    \A c \in Conns :
        (/\ conn[c].op = "write" /\ IsSome(conn[c].target)
         /\ conn[c].pc \in {"respond", "done", "failed"}
         /\ writer[Unwrap(conn[c].target)] = c)
            => /\ Unwrap(conn[c].target) \in DOMAIN fs
               /\ fs[Unwrap(conn[c].target)] = conn[c].content

\* C19: the files change only by the write of a POST /files/<name> with a
\* non-empty name, handled with a directory configured after its request
\* line and headers parsed, and that write touches the one file
\* <directory>/<name>; every other step (of a GET, of another POST, of a
\* request that aborts) leaves the files as they are, and the file stays
\* written when the 201 cannot be sent
C19_FilesChangeByPostOnly ==
    /\ [][FilesChangeByPostOnly]_vars
    /\ []WrittenStaysWritten

\* C19 happens: a POST wrote its file, the 201 could not be sent, and the
\* file holds the body
C19_Witness ==
    \E c \in Conns :
        /\ conn[c].pc = "failed" /\ conn[c].error = "ClientUnreachable"
        /\ conn[c].op = "write" /\ IsSome(conn[c].target)
        /\ Unwrap(conn[c].response).status = "Http201"
        /\ conn[c].content = <<"hello">>
        /\ writer[Unwrap(conn[c].target)] = c
        /\ fs[Unwrap(conn[c].target)] = <<"hello">>

==========================================================================
